---------------------------- MODULE Spec2Model ----------------------------
(***************************************************************************)
(* Model of the optimistic todo list of app/routes/todos.tsx: the server   *)
(* action and loader, the fetcher lifecycle the route relies on            *)
(* (submitting -> loading -> idle, one fetcher per form), and the          *)
(* reconciliation computed on every render of TodosRoute and ListItem.     *)
(*                                                                         *)
(* Titles are sequences of characters, so that title.includes("error") is  *)
(* a substring search.  Instants are integers (one unit = one clock tick); *)
(* a createdAt string is a wall-clock reading with or without the trailing *)
(* "Z", so that new Date(string) depends on the time zone of whoever       *)
(* parses it, as it does in JavaScript.                                    *)
(***************************************************************************)
EXTENDS Integers, Sequences, FiniteSets, TLC

VARIABLES
    db,          \* prisma.todo rows, in storage order
    dbVer,       \* number of writes committed to db (history variable)
    todos,       \* useLoaderData().todos: the confirmed snapshot
    todosVer,    \* dbVer at the time the snapshot in todos was read
    fetchers,    \* useFetchers(): the router's fetcher map, in insertion order
    reloads,     \* revalidations in flight, oldest first (by load id)
    orphans,     \* requests whose fetcher was resubmitted or unmounted
    newTodoIds,  \* React state of TodosRoute
    nextId,      \* number of cuid() calls made so far
    now,         \* the clock (instant of the next submission)
    clientTz,    \* time-zone offset of the browser
    serverTz,    \* time-zone offset of the server process
    boundary,    \* "none", or the boundary that replaced the route's UI
    budget,      \* number of forms the user may still submit
    requests,    \* requests of any user the action is running for, with the
                 \* place each run has reached
    replies,     \* what the action has answered to them
    location,    \* the URL the browser shows
    session,     \* the user id in the session cookie, if any
    accounts     \* the users that have signed up

vars == <<db, dbVer, todos, todosVer, fetchers, reloads, orphans, newTodoIds,
          nextId, now, clientTz, serverTz, boundary, budget, requests,
          replies, location, session, accounts>>

-----------------------------------------------------------------------------
(* Bounds of the model *)

MaxOps == 2
MaxCreates == 2
TzShift == 2

-----------------------------------------------------------------------------
(* Values *)

TitleMilk == <<"m">>
TitleTea == <<"t">>
TitleEmpty == <<>>
TitleBlank == <<" ">>
TitleBuyError == <<"b", "e", "r", "r", "o", "r">>
ErrorWord == <<"e", "r", "r", "o", "r">>

ForbiddenWordMessage == "Todos cannot include the word \"error\""
TitleRequiredMessage == "Todo title required"
IdRequiredMessage == "Todo id required"
CreatedAtInvalidMessage == "Todo createdAt date is invalid"
RecordNotFoundMessage == "Record to update not found"

\* No session cookie, or one that holds no user id
NoSession == "<no session>"
\* A URL: its path and its redirectTo search parameter, and the request
\* that brought the browser there
Url(path, redirectTo) == [path |-> path, redirectTo |-> redirectTo]
Shown(url, request) ==
    [path |-> url.path, redirectTo |-> url.redirectTo, request |-> request]

\* String.prototype.includes
Includes(s, w) ==
    \E i \in 1..(Len(s) - Len(w) + 1) : SubSeq(s, i, i + Len(w) - 1) = w

\* Boolean.prototype.toString, and the test  formData.get("complete") === "true"
BoolToString(b) == IF b THEN "true" ELSE "false"
IsTrueString(s) == s = "true"

\* createdAt strings: "" | an unparseable string | an ISO date-time, with or
\* without the trailing "Z"
EmptyDate == [kind |-> "empty", wall |-> 0, z |-> FALSE]
BadDate == [kind |-> "bad", wall |-> 0, z |-> FALSE]
\* Date.prototype.toISOString: the UTC wall clock, with "Z"
ToISOString(instant) == [kind |-> "iso", wall |-> instant, z |-> TRUE]
\* .slice(0, -1): drops the last character, the "Z"
SliceOffLast(s) == [s EXCEPT !.z = FALSE]
\* new Date(string).getTime() in a process whose zone is tz ahead of UTC: a
\* date-time without offset is read as local time.  IsNaNDate for NaN.
IsNaNDate(s) == s.kind # "iso"
ParseDate(s, tz) == IF s.z THEN s.wall ELSE s.wall - tz


-----------------------------------------------------------------------------
(* The server: validation, the action and the loader *)

Undefined == "<undefined>"
NoError == "<none>"
CurrentUser == "u1"

validateNewTodoTitle(title) ==
    IF title # TitleEmpty THEN NoError ELSE TitleRequiredMessage

validateId(id) == IF id # "" THEN NoError ELSE IdRequiredMessage

validateCreatedAt(createdAt) ==
    IF createdAt.kind = "empty" THEN NoError
    ELSE IF IsNaNDate(createdAt) THEN CreatedAtInvalidMessage
    ELSE NoError

\* What the action hands back: a json() response that is returned, a json()
\* response that is thrown, or a thrown Error.
JsonSuccess(intent) ==
    [kind |-> "returned", status |-> 200, type |-> "success", intent |-> intent,
     id |-> Undefined, error |-> NoError]
JsonError(intent, id, error) ==
    [kind |-> "returned", status |-> 400, type |-> "error", intent |-> intent,
     id |-> id, error |-> error]
ThrownResponse(status, error) ==
    [kind |-> "thrown", status |-> status, type |-> Undefined,
     intent |-> Undefined, id |-> Undefined, error |-> error]
ThrownError(message) ==
    [kind |-> "error", status |-> 500, type |-> Undefined, intent |-> Undefined,
     id |-> Undefined, error |-> message]

Ids(rows) == {rows[i].id : i \in 1..Len(rows)}

\* prisma.todo.create: the row lands anywhere in storage order; the primary
\* key is unique across all users
InsertAt(rows, row, pos) ==
    SubSeq(rows, 1, pos - 1) \o <<row>> \o SubSeq(rows, pos, Len(rows))

\* Variant of createTodo without the forbidden-word rule
createTodo_NoWordRule(store, form, userId, tz, clock) ==
    IF validateNewTodoTitle(form.title) # NoError
    THEN {[db |-> store,
           resp |-> JsonError(form.intent, Undefined,
                              validateNewTodoTitle(form.title))]}
    ELSE {[db |-> Append(store,
                         [id |-> form.id, complete |-> FALSE,
                          title |-> form.title, userId |-> userId,
                          createdAt |-> ParseDate(form.createdAt, tz)]),
           resp |-> JsonSuccess(form.intent)]}

\* Each handler yields the set of outcomes [db, resp] the store can produce.
createTodo(store, form, userId, tz, clock) ==
    IF Includes(form.title, ErrorWord)
    THEN {[db |-> store,
           resp |-> JsonError(form.intent, form.id, ForbiddenWordMessage)]}
    ELSE IF validateCreatedAt(form.createdAt) # NoError
    THEN {[db |-> store,
           resp |-> ThrownError("We messed up the createdAt. Sorry")]}
    ELSE IF validateId(form.id) # NoError
    THEN {[db |-> store, resp |-> ThrownError("We messed up the id. Sorry")]}
    ELSE IF validateNewTodoTitle(form.title) # NoError
    THEN {[db |-> store,
           resp |-> JsonError(form.intent, Undefined,
                              validateNewTodoTitle(form.title))]}
    ELSE IF form.id \in Ids(store)
    THEN {[db |-> store, resp |-> ThrownError("Unique constraint failed")]}
    ELSE {[db |-> InsertAt(store,
                           [id |-> form.id, complete |-> FALSE,
                            title |-> form.title, userId |-> userId,
                            createdAt |->
                                IF form.createdAt.kind = "empty" THEN clock
                                ELSE ParseDate(form.createdAt, tz)],
                           pos),
           resp |-> JsonSuccess(form.intent)] : pos \in 1..(Len(store) + 1)}

toggleAllTodos(store, form, userId) ==
    {[db |-> [i \in 1..Len(store) |->
                 IF store[i].userId = userId
                 THEN [store[i] EXCEPT !.complete = IsTrueString(form.complete)]
                 ELSE store[i]],
      resp |-> JsonSuccess(form.intent)]}

deleteCompletedTodos(store, form, userId) ==
    {[db |-> SelectSeq(store,
                       LAMBDA r : ~(r.complete = TRUE /\ r.userId = userId)),
      resp |-> JsonSuccess(form.intent)]}

toggleTodo(store, form) ==
    IF form.todoId \notin Ids(store)
    THEN {[db |-> store, resp |-> ThrownError(RecordNotFoundMessage)]}
    ELSE {[db |-> [i \in 1..Len(store) |->
                      IF store[i].id = form.todoId
                      THEN [store[i] EXCEPT
                                !.complete = IsTrueString(form.complete)]
                      ELSE store[i]],
           resp |-> JsonSuccess(form.intent)]}

updateTodo(store, form) ==
    IF Includes(form.title, ErrorWord)
    THEN {[db |-> store,
           resp |-> JsonError(form.intent, Undefined, ForbiddenWordMessage)]}
    ELSE IF validateNewTodoTitle(form.title) # NoError
    THEN {[db |-> store,
           resp |-> JsonError(form.intent, Undefined,
                              validateNewTodoTitle(form.title))]}
    ELSE IF form.todoId \notin Ids(store)
    THEN {[db |-> store, resp |-> ThrownError(RecordNotFoundMessage)]}
    ELSE {[db |-> [i \in 1..Len(store) |->
                      IF store[i].id = form.todoId
                      THEN [store[i] EXCEPT !.title = form.title]
                      ELSE store[i]],
           resp |-> JsonSuccess(form.intent)]}

deleteTodo(store, form) ==
    IF form.todoId \notin Ids(store)
    THEN {[db |-> store, resp |-> ThrownError(RecordNotFoundMessage)]}
    ELSE {[db |-> SelectSeq(store, LAMBDA r : r.id # form.todoId),
           resp |-> JsonSuccess(form.intent)]}

GeneralIntents == {"createTodo", "toggleAllTodos", "deleteCompletedTodos"}
TodoIntents == {"toggleTodo", "updateTodo", "deleteTodo"}

\* Variant that looks the todo up by its id alone
findFirst_AnyUser(store, todoId, userId) ==
    \E i \in 1..Len(store) : store[i].id = todoId

\* prisma.todo.findFirst({ where: { id: todoId, userId } })
findFirst(store, todoId, userId) ==
    \E i \in 1..Len(store) :
        store[i].id = todoId /\ store[i].userId = userId

\* The handler of todoActions for the intent
todoAction(store, form) ==
    CASE form.intent = "toggleTodo" -> toggleTodo(store, form)
      [] form.intent = "updateTodo" -> updateTodo(store, form)
      [] form.intent = "deleteTodo" -> deleteTodo(store, form)

\* export async function action
action(store, form, userId, tz, clock) ==
    IF form.intent \in GeneralIntents
    THEN CASE form.intent = "createTodo" ->
                  createTodo(store, form, userId, tz, clock)
           [] form.intent = "toggleAllTodos" ->
                  toggleAllTodos(store, form, userId)
           [] form.intent = "deleteCompletedTodos" ->
                  deleteCompletedTodos(store, form, userId)
    ELSE IF form.intent \in TodoIntents
    THEN IF ~findFirst(store, form.todoId, userId)
         THEN {[db |-> store, resp |-> ThrownResponse(404, "todo not found")]}
         ELSE todoAction(store, form)
    ELSE {[db |-> store, resp |-> ThrownResponse(400, "Unknown intent")]}

\* export async function loader: the user's rows in storage order, each date
\* serialised by JSON as an ISO string
loader(store, userId) ==
    LET mine == SelectSeq(store, LAMBDA r : r.userId = userId)
    IN  [i \in 1..Len(mine) |->
            [id |-> mine[i].id, complete |-> mine[i].complete,
             title |-> mine[i].title,
             createdAt |-> ToISOString(mine[i].createdAt)]]

-----------------------------------------------------------------------------
(* Fetchers, as the route sees them *)

UndefinedTitle == <<Undefined>>
UndefinedDate == [kind |-> Undefined, wall |-> 0, z |-> FALSE]

\* fetcher.submission?.formData of a fetcher that has no submission:
\* every get() yields undefined
NoSubmission ==
    [intent |-> Undefined, id |-> Undefined, title |-> UndefinedTitle,
     createdAt |-> UndefinedDate, todoId |-> Undefined, complete |-> Undefined]
NoData ==
    [type |-> Undefined, intent |-> Undefined, id |-> Undefined,
     error |-> NoError]
NoResp ==
    [kind |-> "none", status |-> 0, type |-> Undefined, intent |-> Undefined,
     id |-> Undefined, error |-> NoError]

\* The fetcher useFetcher() returns before its form was ever submitted
IdleFetcher(key) ==
    [key |-> key, state |-> "idle", submission |-> NoSubmission,
     data |-> NoData, resp |-> NoResp, commitVer |-> 0]

HasFetcher(fs, key) == \E i \in 1..Len(fs) : fs[i].key = key
FetcherOf(fs, key) ==
    IF HasFetcher(fs, key)
    THEN fs[CHOOSE i \in 1..Len(fs) : fs[i].key = key]
    ELSE IdleFetcher(key)

ClearKey == <<"clear", "">>
ToggleAllKey == <<"toggleAll", "">>
CreateKey(id) == <<"create", id>>
ToggleKey(id) == <<"toggle", id>>
UpdateKey(id) == <<"update", id>>
DeleteKey(id) == <<"delete", id>>

\* The forms of TodosRoute, CreateInput and ListItem
ClearForm == [NoSubmission EXCEPT !.intent = "deleteCompletedTodos"]
ToggleAllForm(complete) ==
    [NoSubmission EXCEPT !.intent = "toggleAllTodos",
                         !.complete = BoolToString(complete)]
CreateForm(id, title, instant) ==
    [NoSubmission EXCEPT !.intent = "createTodo", !.id = id, !.title = title,
                         !.createdAt = SliceOffLast(ToISOString(instant))]
ToggleForm(todoId, complete) ==
    [NoSubmission EXCEPT !.intent = "toggleTodo", !.todoId = todoId,
                         !.complete = BoolToString(complete)]
UpdateForm(todoId, title) ==
    [NoSubmission EXCEPT !.intent = "updateTodo", !.todoId = todoId,
                         !.title = title]
DeleteForm(todoId) ==
    [NoSubmission EXCEPT !.intent = "deleteTodo", !.todoId = todoId]

\* Variant that takes any loading fetcher for optimistic
canBeOptimistic_AnyLoading(fetcher) ==
    fetcher.state = "submitting" \/ fetcher.state = "loading"

\* Variant that stops being optimistic when the response arrives
canBeOptimistic_OnlySubmitting(fetcher) == fetcher.state = "submitting"

canBeOptimistic(fetcher) ==
    \/ fetcher.state = "submitting"
    \/ (fetcher.state = "loading" /\ fetcher.data.type = "success")

-----------------------------------------------------------------------------
(* TodosRoute: the reconciliation computed on every render *)

clearingTodosOf(fs) == canBeOptimistic(FetcherOf(fs, ClearKey))

\* Variant that leaves the completed todos in the list
AfterClear_KeepsCompleted(ts, fs) == ts

AfterClear(ts, fs) ==
    IF clearingTodosOf(fs) THEN SelectSeq(ts, LAMBDA todo : ~todo.complete)
    ELSE ts

\* togglingComplete: boolean | undefined
togglingCompleteOf(fs) ==
    IF canBeOptimistic(FetcherOf(fs, ToggleAllKey))
    THEN [defined |-> TRUE,
          value |->
              IsTrueString(FetcherOf(fs, ToggleAllKey).submission.complete)]
    ELSE [defined |-> FALSE, value |-> FALSE]

AfterToggleAll(ts, fs) ==
    IF canBeOptimistic(FetcherOf(fs, ToggleAllKey))
    THEN [i \in 1..Len(ts) |->
             [ts[i] EXCEPT !.complete = togglingCompleteOf(fs).value]]
    ELSE ts

optimisticFetchers(fs) == SelectSeq(fs, canBeOptimistic)
createFetchers(fs) ==
    SelectSeq(optimisticFetchers(fs),
              LAMBDA f : f.submission.intent = "createTodo")
deleteFetchers(fs) ==
    SelectSeq(optimisticFetchers(fs),
              LAMBDA f : f.submission.intent = "deleteTodo")
toggleFetchers(fs) ==
    SelectSeq(optimisticFetchers(fs),
              LAMBDA f : f.submission.intent = "toggleTodo")

\* for (const fetcher of deleteFetchers) ...
RECURSIVE ApplyDeletes(_, _)
ApplyDeletes(ts, dfs) ==
    IF dfs = <<>> THEN ts
    ELSE ApplyDeletes(
             SelectSeq(ts, LAMBDA todo : todo.id # Head(dfs).submission.todoId),
             Tail(dfs))

\* Variant in which a toggle fetcher sets the complete flag of every todo
RECURSIVE ApplyToggles_EveryTodo(_, _)
ApplyToggles_EveryTodo(ts, tfs) ==
    IF tfs = <<>> THEN ts
    ELSE ApplyToggles_EveryTodo(
             [i \in 1..Len(ts) |->
                 [ts[i] EXCEPT
                     !.complete = IsTrueString(Head(tfs).submission.complete)]],
             Tail(tfs))

\* for (const fetcher of toggleFetchers) ...
RECURSIVE ApplyToggles(_, _)
ApplyToggles(ts, tfs) ==
    IF tfs = <<>> THEN ts
    ELSE ApplyToggles(
             [i \in 1..Len(ts) |->
                 IF ts[i].id = Head(tfs).submission.todoId
                 THEN [ts[i] EXCEPT
                          !.complete =
                              IsTrueString(Head(tfs).submission.complete)]
                 ELSE ts[i]],
             Tail(tfs))

\* Variant that keeps only the id that was not submitted yet
unfinishedTodosOf_OnlyLast(ts, ids) == <<ids[Len(ids)]>>

unfinishedTodosOf(ts, ids) == SelectSeq(ids, LAMBDA id : id \notin Ids(ts))
hasFinishedTodosOf(ts, ids) == Len(unfinishedTodosOf(ts, ids)) # Len(ids)

\* allFetchers.find(...): index of the first match, 0 when there is none
firstFailedNewTodoFetcherIndex(fs) ==
    LET hits == {i \in 1..Len(fs) :
                    fs[i].data.intent = "createTodo" /\ ~canBeOptimistic(fs[i])}
    IN  IF hits = {} THEN 0 ELSE CHOOSE i \in hits : \A j \in hits : i <= j

newTodoIdToDisplayOf(fs, ids) ==
    LET i == firstFailedNewTodoFetcherIndex(fs)
    IN  IF i # 0 /\ fs[i].data.id # Undefined THEN fs[i].data.id
        ELSE ids[Len(ids)]

\* Variant without the test that the snapshot has no todo with the id yet
CreateIsShown_NoDedup(ts, fetcher) ==
    /\ validateId(fetcher.submission.id) = NoError
    /\ validateNewTodoTitle(fetcher.submission.title) = NoError
    /\ validateCreatedAt(fetcher.submission.createdAt) = NoError

\* Variant that also applies the server's forbidden-word rule
CreateIsShown_WithWordRule(ts, fetcher) ==
    /\ fetcher.submission.id \notin Ids(ts)
    /\ validateId(fetcher.submission.id) = NoError
    /\ validateNewTodoTitle(fetcher.submission.title) = NoError
    /\ ~Includes(fetcher.submission.title, ErrorWord)
    /\ validateCreatedAt(fetcher.submission.createdAt) = NoError

\* The condition under which a create fetcher's todo is shown optimistically
CreateIsShown(ts, fetcher) ==
    /\ fetcher.submission.id \notin Ids(ts)
    /\ fetcher.submission.id # Undefined
    /\ validateId(fetcher.submission.id) = NoError
    /\ fetcher.submission.title # UndefinedTitle
    /\ validateNewTodoTitle(fetcher.submission.title) = NoError
    /\ fetcher.submission.createdAt # UndefinedDate
    /\ validateCreatedAt(fetcher.submission.createdAt) = NoError

NewTodoOf(fetcher) ==
    [id |-> fetcher.submission.id, title |-> fetcher.submission.title,
     complete |-> FALSE,
     createdAt |->
         ToISOString(ParseDate(fetcher.submission.createdAt, clientTz))]

optimisticNewTodosOf(ts, fs) ==
    LET shown == SelectSeq(createFetchers(fs),
                           LAMBDA f : CreateIsShown(ts, f))
    IN  [i \in 1..Len(shown) |-> NewTodoOf(shown[i])]

\* Variant that applies the toggle-all before the clear-completed
optimisticTodosOf_ToggleAllFirst(ts, fs) ==
    ApplyToggles(
        ApplyDeletes(AfterClear(AfterToggleAll(ts, fs), fs),
                     deleteFetchers(fs)),
        toggleFetchers(fs))
    \o optimisticNewTodosOf(ts, fs)

optimisticTodosOf(ts, fs) ==
    ApplyToggles(
        ApplyDeletes(AfterToggleAll(AfterClear(ts, fs), fs),
                     deleteFetchers(fs)),
        toggleFetchers(fs))
    \o optimisticNewTodosOf(ts, fs)

\* The array the variable optimisticTodos refers to: its items, and whether
\* it is the very array of the loader data, so that a push reaches todos too.
\* Variant without the copy: let optimisticTodos = todos
SpreadTodos_SameArray(ts) == [items |-> ts, sharesTodos |-> TRUE]

\* let optimisticTodos = [...todos]
SpreadTodos(ts) == [items |-> ts, sharesTodos |-> FALSE]

\* filter and map return a new array
FreshArray(items) == [items |-> items, sharesTodos |-> FALSE]

\* The statements of the reconciliation in their order, each assignment
\* taken only when the code takes it
optimisticTodosArray(ts, fs) ==
    LET spread == SpreadTodos(ts)
        cleared == IF clearingTodosOf(fs)
                   THEN FreshArray(AfterClear(spread.items, fs)) ELSE spread
        toggledAll == IF canBeOptimistic(FetcherOf(fs, ToggleAllKey))
                      THEN FreshArray(AfterToggleAll(cleared.items, fs))
                      ELSE cleared
        deleted == IF deleteFetchers(fs) # <<>>
                   THEN FreshArray(ApplyDeletes(toggledAll.items,
                                                deleteFetchers(fs)))
                   ELSE toggledAll
        toggled == IF toggleFetchers(fs) # <<>>
                   THEN FreshArray(ApplyToggles(deleted.items,
                                                toggleFetchers(fs)))
                   ELSE deleted
    IN  \* optimisticTodos.push(newTodo) changes the array in place
        [toggled EXCEPT !.items = toggled.items \o optimisticNewTodosOf(ts, fs)]

\* The loader's array after the reconciliation has run
todosAfterRender(ts, fs) ==
    IF optimisticTodosArray(ts, fs).sharesTodos
    THEN optimisticTodosArray(ts, fs).items
    ELSE ts

\* Array.prototype.sort with the comparator of todosToRender: a stable sort
\* by new Date(createdAt)
RECURSIVE SortByCreatedAt(_)
SortByCreatedAt(ts) ==
    IF ts = <<>> THEN <<>>
    ELSE LET n == Len(ts)
             init == SortByCreatedAt(SubSeq(ts, 1, n - 1))
             key(t) == ParseDate(t.createdAt, clientTz)
             before == SelectSeq(init, LAMBDA t : key(t) <= key(ts[n]))
             after == SelectSeq(init, LAMBDA t : key(t) > key(ts[n]))
         IN  before \o <<ts[n]>> \o after

todosToRenderOf(ts, fs) == SortByCreatedAt(ts \o optimisticNewTodosOf(ts, fs))

hasCompleteTodosOf(ts, fs) ==
    LET ots == optimisticTodosOf(ts, fs)
    IN  \E i \in 1..Len(ots) : ots[i].complete = TRUE

remainingActiveOf(ts, fs) ==
    SelectSeq(optimisticTodosOf(ts, fs), LAMBDA t : ~t.complete)
optimisticTodosToRenderOf(ts, fs) ==
    LET ids == Ids(optimisticTodosOf(ts, fs))
    IN  SelectSeq(todosToRenderOf(ts, fs), LAMBDA t : t.id \in ids)
optimisticTodosRemainOf(ts, fs) == Len(optimisticTodosToRenderOf(ts, fs)) > 0
\* Variant that does not look at whether any todo remains
allCompleteOf_NoneActive(ts, fs) == Len(remainingActiveOf(ts, fs)) = 0

allCompleteOf(ts, fs) ==
    optimisticTodosRemainOf(ts, fs) /\ Len(remainingActiveOf(ts, fs)) = 0

-----------------------------------------------------------------------------
(* ListItem *)

isDeletingOf(todo, fs) ==
    \/ canBeOptimistic(FetcherOf(fs, DeleteKey(todo.id)))
    \/ (clearingTodosOf(fs) /\ todo.complete)

optimisticCompleteOf(todo, fs) ==
    IF canBeOptimistic(FetcherOf(fs, ToggleKey(todo.id)))
    THEN IsTrueString(FetcherOf(fs, ToggleKey(todo.id)).submission.complete)
    ELSE IF togglingCompleteOf(fs).defined THEN togglingCompleteOf(fs).value
    ELSE todo.complete

shouldRenderOf(todo, fs, filter) ==
    \/ filter = "all"
    \/ (filter = "complete" /\ optimisticCompleteOf(todo, fs))
    \/ (filter = "active" /\ ~optimisticCompleteOf(todo, fs))

\* {hasCompleteTodos ? <clearFetcher.Form ...> : null}, inside the footer
clearCompletedShownOf(ts, fs) ==
    hasCompleteTodosOf(ts, fs) /\ optimisticTodosRemainOf(ts, fs)

\* Variant that hides the footer until the loader has returned a todo
footerHiddenOf_ConfirmedOnly(ts, fs) == Len(ts) = 0

\* <footer className="footer" hidden={!optimisticTodosRemain}>
footerHiddenOf(ts, fs) == ~optimisticTodosRemainOf(ts, fs)

\* <ul className="todo-list" hidden={!optimisticTodosRemain}>
todoListHiddenOf(ts, fs) == ~optimisticTodosRemainOf(ts, fs)

\* <section className={cn("main", !optimisticTodosRemain && "no-todos")}>,
\* and .main.no-todos .toggle-all { visibility: hidden }
toggleAllHiddenOf(ts, fs) == ~optimisticTodosRemainOf(ts, fs)

\* <strong>{remainingActive.length}</strong> item(s) left
todoCountOf(ts, fs) ==
    [count |-> Len(remainingActiveOf(ts, fs)),
     noun |-> IF Len(remainingActiveOf(ts, fs)) = 1 THEN "item" ELSE "items"]

\* What the <ul> shows: the ListItems that do not return null, in order,
\* each with the completed class it shows
RenderedOf(ts, fs, filter) ==
    LET items == SelectSeq(todosToRenderOf(ts, fs),
                           LAMBDA todo : ~isDeletingOf(todo, fs)
                                         /\ shouldRenderOf(todo, fs, filter))
    IN  [i \in 1..Len(items) |->
            [id |-> items[i].id, title |-> items[i].title,
             complete |-> optimisticCompleteOf(items[i], fs)]]

\* The render of the current state
optimisticTodos == optimisticTodosOf(todos, fetchers)
todosToRender == todosToRenderOf(todos, fetchers)
newTodoIdToDisplay == newTodoIdToDisplayOf(fetchers, newTodoIds)
Rendered == RenderedOf(todos, fetchers, "all")

-----------------------------------------------------------------------------
(* The session and the routes that depend on it: index, login, logout *)

EmailAda == <<"a", "@", "b", "c">>
EmailBob == <<"b", "@", "b", "c">>
EmailShort == <<"a", "@">>
EmailNoAt == <<"a", "b", "c", "d">>
PasswordGood == <<"p", "a", "s", "s", "w", "o", "r", "d">>
PasswordOther == <<"p", "a", "s", "s", "w", "o", "r", "t">>
PasswordShort == <<"p", "w">>

UserIds == {"u1", "u2"}

\* bcrypt.hash and bcrypt.compare
Hash(password) == <<"hash", password>>
Compare(password, hash) == Hash(password) = hash

\* A row of the user table with its password row
Account(id, email, password) ==
    [id |-> id, email |-> email, hash |-> Hash(password)]

validateEmail(email) ==
    Len(email) > 3 /\ \E i \in 1..Len(email) : email[i] = "@"

\* prisma.user.findUnique({ where: { email } }): the users with this email
findUnique(users, email) == {u \in users : u.email = email}

\* prisma.user.create: the new user gets an id that no user has
createUser(users, email, password) ==
    Account(CHOOSE id \in UserIds : \A u \in users : u.id # id, email,
            password)

\* The id of the user whose password this is, or NoSession for null
verifyLogin(users, email, password) ==
    LET found == {u \in findUnique(users, email) : Compare(password, u.hash)}
    IN  IF found = {} THEN NoSession ELSE (CHOOSE u \in found : TRUE).id

\* What a loader or an action answers
Redirect(to) == [kind |-> "redirect", to |-> to]
Render == [kind |-> "render", to |-> Undefined]

\* session.server: the user id of the session cookie
getUserId(sess) == sess

\* session.server: the user of the session cookie, if that user exists
getUser(sess, users) ==
    IF \E u \in users : u.id = sess THEN sess ELSE NoSession

\* session.server: a redirect that sets the session cookie
createUserSession(userId, redirectTo) ==
    [kind |-> "redirect", to |-> redirectTo, session |-> userId,
     error |-> NoError]

\* session.server: a redirect that destroys the session
logout(redirectTo) ==
    [kind |-> "redirect", to |-> redirectTo, session |-> NoSession,
     error |-> NoError]

\* routes/index: loader
indexLoader(sess, users) ==
    IF getUser(sess, users) # NoSession THEN Redirect("/todos")
    ELSE Redirect("/login")

\* Variant of the login loader that shows the form to everybody
loginLoader_NeverRedirects(sess) == Render

\* routes/login: loader
loginLoader(sess) ==
    IF getUserId(sess) # NoSession THEN Redirect("/todos") ELSE Render

TodosPaths == {"/todos", "/todos/active"}

\* routes/todos: loader, which starts with requireUser(request)
todosLoader(sess, users) ==
    IF getUser(sess, users) # NoSession THEN Render ELSE Redirect("/login")

\* LoginPage: searchParams.get("redirectTo") || "/"
redirectToField(url) ==
    IF url.redirectTo \in {Undefined, ""} THEN "/" ELSE url.redirectTo

LoginForm(intent, email, password, redirectTo) ==
    [intent |-> intent, email |-> email, password |-> password,
     redirectTo |-> redirectTo]

LoginErrors(sess, message) ==
    [kind |-> "errors", to |-> Undefined, session |-> sess,
     error |-> message]

\* routes/login: action. Yields the users afterwards and the answer
loginAction(form, users, sess) ==
    IF ~validateEmail(form.email)
    THEN [users |-> users, resp |-> LoginErrors(sess, "Email is invalid")]
    ELSE IF Len(form.password) < 8
    THEN [users |-> users,
          resp |-> LoginErrors(sess, "Password is too short")]
    ELSE IF form.intent = "signup" /\ findUnique(users, form.email) # {}
    THEN [users |-> users,
          resp |-> LoginErrors(sess,
                               "A user already exists with this email")]
    ELSE LET created == createUser(users, form.email, form.password)
             after == IF form.intent = "signup" THEN users \cup {created}
                      ELSE users
             userId == IF form.intent = "signup" THEN created.id
                       ELSE verifyLogin(users, form.email, form.password)
         IN  IF userId = NoSession
             THEN [users |-> after,
                   resp |-> LoginErrors(sess, "Invalid email or password")]
             ELSE [users |-> after,
                   resp |-> createUserSession(
                                userId,
                                IF form.redirectTo # Undefined
                                THEN form.redirectTo ELSE "/todos")]

\* The loader of the route that matches the path
routeLoader(path, sess, users) ==
    IF path = "/" THEN indexLoader(sess, users)
    ELSE IF path = "/login" THEN loginLoader(sess)
    ELSE IF path \in TodosPaths THEN todosLoader(sess, users)
    ELSE Render

\* The browser follows redirects until a page renders
RECURSIVE Resolve(_, _, _)
Resolve(url, sess, users) ==
    LET answer == routeLoader(url.path, sess, users)
    IN  IF answer.kind = "redirect"
        THEN Resolve(Url(answer.to, Undefined), sess, users)
        ELSE url

-----------------------------------------------------------------------------
(* The state machine *)

IdNames == <<"n1", "n2", "n3", "n4", "n5", "n6">>
\* cuid(): the k-th id generated on this page
cuid(k) == IdNames[k]

CreateTitles == {TitleMilk, TitleEmpty, TitleBlank, TitleBuyError}
UpdateTitles == {TitleTea, TitleBlank, TitleBuyError}
TzOffsets == {0, TzShift}

Row(id, complete, instant) ==
    [id |-> id, complete |-> complete, title |-> TitleMilk,
     userId |-> CurrentUser, createdAt |-> instant]

\* The stores a session can start from
InitialStores ==
    {<<>>, <<Row("a", FALSE, 0)>>, <<Row("a", FALSE, 0), Row("b", TRUE, 1)>>}

InitialClock == 2

Init ==
    /\ db \in InitialStores
    /\ dbVer = 0
    /\ todos = loader(db, CurrentUser)
    /\ todosVer = 0
    /\ fetchers = <<>>
    /\ reloads = <<>>
    /\ orphans = {}
    /\ newTodoIds = <<cuid(1)>>
    /\ nextId = 1
    /\ now = InitialClock
    /\ clientTz \in TzOffsets
    /\ serverTz = 0
    /\ boundary = "none"
    /\ budget = MaxOps
    /\ requests = {}
    /\ replies = {}
    /\ location = Shown(Url("/todos", Undefined), <<"GET", "/todos">>)
    /\ session = CurrentUser
    /\ accounts = {Account(CurrentUser, EmailAda, PasswordGood)}

WithoutKeys(seq, keys) == SelectSeq(seq, LAMBDA e : e.key \notin keys)

\* The requests of the fetchers with these keys that the server has not
\* processed yet: aborting the fetch does not take them back
Unprocessed(fs, keys) ==
    {fs[i].submission : i \in {j \in 1..Len(fs) :
                                  /\ fs[j].key \in keys
                                  /\ fs[j].state = "submitting"
                                  /\ fs[j].resp = NoResp}}

\* fetcher.submit / <fetcher.Form> onSubmit: the fetcher keeps its place in
\* the map and its data, takes the new submission, and whatever it was
\* waiting for is aborted
SubmittedFetchers(fs, key, form) ==
    LET new == [key |-> key, state |-> "submitting", submission |-> form,
                data |-> FetcherOf(fs, key).data, resp |-> NoResp,
                commitVer |-> 0]
    IN  IF HasFetcher(fs, key)
        THEN [i \in 1..Len(fs) |-> IF fs[i].key = key THEN new ELSE fs[i]]
        ELSE Append(fs, new)

Submit(key, form) ==
    /\ boundary = "none"
    /\ budget > 0
    /\ budget' = budget - 1
    /\ fetchers' = SubmittedFetchers(fetchers, key, form)
    /\ orphans' = orphans \cup Unprocessed(fetchers, {key})
    /\ reloads' = WithoutKeys(reloads, {key})
    /\ UNCHANGED <<db, dbVer, todos, todosVer, clientTz, serverTz, boundary,
                   requests, replies,
                   location, session, accounts>>

\* CreateInput: the visible input is submitted; the clock has advanced by
\* elapsed milliseconds when the next form is submitted
SubmitCreateAfter(title, elapsed) ==
    /\ boundary = "none"
    /\ budget > 0
    /\ nextId <= MaxCreates
    /\ \E i \in 1..Len(newTodoIds) : newTodoIds[i] = newTodoIdToDisplay
    /\ Submit(CreateKey(newTodoIdToDisplay),
              CreateForm(newTodoIdToDisplay, title, now))
    /\ newTodoIds' = Append(newTodoIds, cuid(nextId + 1))
    /\ nextId' = nextId + 1
    /\ now' = now + elapsed

\* CreateInput: the visible input is submitted
SubmitCreate(title) == SubmitCreateAfter(title, 1)

\* ListItem: disabled={todo.id === "new"} on the toggle button, the edit
\* input and the destroy button
ControlsDisabled(item) == item.id = "new"

\* ListItem: the toggle button
SubmitToggle(item) ==
    /\ ~ControlsDisabled(item)
    /\ Submit(ToggleKey(item.id), ToggleForm(item.id, ~item.complete))
    /\ UNCHANGED <<newTodoIds, nextId, now>>

\* ListItem: the edit input loses focus with a changed title
SubmitUpdate(item, title) ==
    /\ ~ControlsDisabled(item)
    /\ item.title # title
    /\ Submit(UpdateKey(item.id), UpdateForm(item.id, title))
    /\ UNCHANGED <<newTodoIds, nextId, now>>

\* ListItem: the destroy button
SubmitDelete(item) ==
    /\ ~ControlsDisabled(item)
    /\ Submit(DeleteKey(item.id), DeleteForm(item.id))
    /\ UNCHANGED <<newTodoIds, nextId, now>>

\* TodosRoute: the toggle-all button
SubmitToggleAll ==
    /\ boundary = "none"
    /\ budget > 0
    /\ Len(todosToRender) # 0
    /\ optimisticTodosRemainOf(todos, fetchers)
    /\ Submit(ToggleAllKey, ToggleAllForm(~allCompleteOf(todos, fetchers)))
    /\ UNCHANGED <<newTodoIds, nextId, now>>

\* TodosRoute: the clear-completed button
SubmitClear ==
    /\ boundary = "none"
    /\ budget > 0
    /\ optimisticTodosRemainOf(todos, fetchers)
    /\ hasCompleteTodosOf(todos, fetchers)
    /\ Submit(ClearKey, ClearForm)
    /\ UNCHANGED <<newTodoIds, nextId, now>>

\* The server runs the action for the request of fetcher i
ServerAction(i) ==
    /\ fetchers[i].state = "submitting"
    /\ fetchers[i].resp = NoResp
    /\ \E out \in action(db, fetchers[i].submission, CurrentUser, serverTz, now) :
          /\ db' = out.db
          /\ dbVer' = IF out.resp.type = "success" THEN dbVer + 1 ELSE dbVer
          /\ fetchers' = [fetchers EXCEPT ![i].resp = out.resp,
                                          ![i].commitVer =
                                              IF out.resp.type = "success"
                                              THEN dbVer + 1 ELSE 0]
    /\ UNCHANGED <<todos, todosVer, reloads, orphans, newTodoIds, nextId, now,
                   clientTz, serverTz, boundary, budget, requests,
                   replies, location, session, accounts>>

\* The server runs the action for a request nobody waits for any more
ServerOrphan(form) ==
    /\ form \in orphans
    /\ \E out \in action(db, form, CurrentUser, serverTz, now) :
          /\ db' = out.db
          /\ dbVer' = IF out.resp.type = "success" THEN dbVer + 1 ELSE dbVer
    /\ orphans' = orphans \ {form}
    /\ UNCHANGED <<todos, todosVer, fetchers, reloads, newTodoIds, nextId, now,
                   clientTz, serverTz, boundary, budget, requests,
                   replies, location, session, accounts>>

\* The fetchers after the returned response of fetcher i was delivered: it
\* is loading and the response is its data
Delivered(fs, i) ==
    [fs EXCEPT ![i].state = "loading",
               ![i].data = [type |-> fs[i].resp.type,
                            intent |-> fs[i].resp.intent,
                            id |-> fs[i].resp.id,
                            error |-> fs[i].resp.error],
               ![i].resp = NoResp]

\* The response reaches the browser: a returned response becomes
\* fetcher.data and the loaders are revalidated; a thrown one goes to the
\* route's boundary
ReceiveResponse(i) ==
    /\ boundary = "none"
    /\ fetchers[i].state = "submitting"
    /\ fetchers[i].resp # NoResp
    /\ IF fetchers[i].resp.kind = "returned"
       THEN /\ fetchers' = Delivered(fetchers, i)
            /\ reloads' = Append(reloads,
                                 [key |-> fetchers[i].key, read |-> FALSE,
                                  snap |-> <<>>, ver |-> 0])
            /\ UNCHANGED boundary
       ELSE /\ boundary' = IF fetchers[i].resp.kind = "thrown"
                           THEN "CatchBoundary" ELSE "ErrorBoundary"
            /\ UNCHANGED <<fetchers, reloads>>
    /\ UNCHANGED <<db, dbVer, todos, todosVer, orphans, newTodoIds, nextId,
                   now, clientTz, serverTz, budget, requests,
                   replies, location, session, accounts>>

\* The server runs the loader for revalidation r
LoaderRead(r) ==
    /\ boundary = "none"
    /\ ~reloads[r].read
    /\ reloads' = [reloads EXCEPT ![r].read = TRUE,
                                  ![r].snap = loader(db, CurrentUser),
                                  ![r].ver = dbVer]
    /\ UNCHANGED <<db, dbVer, todos, todosVer, fetchers, orphans, newTodoIds,
                   nextId, now, clientTz, serverTz, boundary, budget, requests,
                   replies, location, session, accounts>>

\* Keys of the fetchers of the ListItems that are mounted for ts, fs
ListItemKeys(ts, fs) ==
    UNION {{ToggleKey(id), UpdateKey(id), DeleteKey(id)} :
             id \in Ids(todosToRenderOf(ts, fs))}
RouteKeys == {ClearKey, ToggleAllKey}
CreateKeys(ids) == {CreateKey(ids[i]) : i \in 1..Len(ids)}

\* Variant in which a fetcher stays in its loading state after its
\* revalidation landed
DoneFetchers_StillLoading(fs, landed) == fs

\* The fetchers after the revalidations of the keys in landed have landed:
\* those fetchers are idle again and keep their data
DoneFetchers(fs, landed) ==
    [i \in 1..Len(fs) |->
        IF fs[i].key \in landed
        THEN [fs[i] EXCEPT !.state = "idle", !.submission = NoSubmission]
        ELSE fs[i]]

\* Revalidation r lands: its data replaces the snapshot, its fetcher and the
\* fetchers of all older revalidations are done, and the ListItems of todos
\* that are gone unmount, which deletes their fetchers
Land(r) ==
    /\ boundary = "none"
    /\ reloads[r].read
    /\ LET landed == {reloads[j].key : j \in 1..r}
           done == DoneFetchers(fetchers, landed)
           mounted == ListItemKeys(reloads[r].snap, done) \cup RouteKeys
                      \cup CreateKeys(newTodoIds)
           gone == {done[i].key : i \in 1..Len(done)} \ mounted
       IN  /\ todos' = reloads[r].snap
           /\ todosVer' = reloads[r].ver
           /\ fetchers' = WithoutKeys(done, gone)
           /\ reloads' = WithoutKeys(SubSeq(reloads, r + 1, Len(reloads)), gone)
           /\ orphans' = orphans \cup Unprocessed(done, gone)
    /\ UNCHANGED <<db, dbVer, newTodoIds, nextId, now, clientTz, serverTz,
                   boundary, budget, requests,
                   replies, location, session, accounts>>

\* The effect of TodosRoute: ids that made it into the snapshot leave
\* newTodoIds, their CreateInputs unmount and their fetchers are deleted
FinishNewTodos ==
    /\ boundary = "none"
    /\ hasFinishedTodosOf(todos, newTodoIds)
    /\ newTodoIds' = unfinishedTodosOf(todos, newTodoIds)
    /\ LET gone == CreateKeys(newTodoIds)
                   \ CreateKeys(unfinishedTodosOf(todos, newTodoIds))
       IN  /\ fetchers' = WithoutKeys(fetchers, gone)
           /\ reloads' = WithoutKeys(reloads, gone)
           /\ orphans' = orphans \cup Unprocessed(fetchers, gone)
    /\ UNCHANGED <<db, dbVer, todos, todosVer, nextId, now, clientTz, serverTz,
                   boundary, budget, requests,
                   replies, location, session, accounts>>

\* The ListItems the user can reach: those shown in the <ul>, which is
\* hidden when no optimistic todo remains
ListItems ==
    IF boundary = "none" /\ budget > 0
       /\ optimisticTodosRemainOf(todos, fetchers)
    THEN {Rendered[i] : i \in 1..Len(Rendered)}
    ELSE {}

Next ==
    \/ \E title \in CreateTitles : SubmitCreate(title)
    \/ \E item \in ListItems : SubmitToggle(item)
    \/ \E item \in ListItems, title \in UpdateTitles : SubmitUpdate(item, title)
    \/ \E item \in ListItems : SubmitDelete(item)
    \/ SubmitToggleAll
    \/ SubmitClear
    \/ \E i \in 1..Len(fetchers) : ServerAction(i)
    \/ \E form \in orphans : ServerOrphan(form)
    \/ \E i \in 1..Len(fetchers) : ReceiveResponse(i)
    \/ \E r \in 1..Len(reloads) : LoaderRead(r)
    \/ \E r \in 1..Len(reloads) : Land(r)
    \/ FinishNewTodos

Spec == Init /\ [][Next]_vars

\* The steps that do not wait for the user: the server handles a request it
\* received, a response or a revalidation arrives, an effect runs
SystemStep ==
    \/ \E i \in 1..Len(fetchers) : ServerAction(i)
    \/ \E form \in orphans : ServerOrphan(form)
    \/ \E i \in 1..Len(fetchers) : ReceiveResponse(i)
    \/ \E r \in 1..Len(reloads) : LoaderRead(r)
    \/ \E r \in 1..Len(reloads) : Land(r)
    \/ FinishNewTodos

\* A session that starts from a list of one todo, in the server's time zone
InitFair == Init /\ Len(db) = 1 /\ clientTz = serverTz

\* Every request sent is answered and every response is delivered
SpecFair == InitFair /\ [][Next]_vars /\ WF_vars(SystemStep)

-----------------------------------------------------------------------------
(* The behaviours in which the user submits a burst of forms before the    *)
(* server has answered any of them                                         *)

MaxBurst == 4

InitBurst ==
    /\ db \in InitialStores
    /\ dbVer = 0
    /\ todos = loader(db, CurrentUser)
    /\ todosVer = 0
    /\ fetchers = <<>>
    /\ reloads = <<>>
    /\ orphans = {}
    /\ newTodoIds = <<cuid(1)>>
    /\ nextId = 1
    /\ now = InitialClock
    /\ clientTz \in TzOffsets
    /\ serverTz = 0
    /\ boundary = "none"
    /\ budget = MaxBurst
    /\ requests = {}
    /\ replies = {}
    /\ location = Shown(Url("/todos", Undefined), <<"GET", "/todos">>)
    /\ session = CurrentUser
    /\ accounts = {Account(CurrentUser, EmailAda, PasswordGood)}

NextBurst ==
    \/ \E title \in CreateTitles : SubmitCreate(title)
    \/ \E item \in ListItems : SubmitToggle(item)
    \/ \E item \in ListItems : SubmitDelete(item)
    \/ SubmitToggleAll
    \/ SubmitClear

SpecBurst == InitBurst /\ [][NextBurst]_vars

-----------------------------------------------------------------------------
(* The behaviours of one more submission, from an empty list in the         *)
(* server's time zone                                                       *)

MaxDeep == 3

InitDeep ==
    /\ db = <<>>
    /\ dbVer = 0
    /\ todos = loader(db, CurrentUser)
    /\ todosVer = 0
    /\ fetchers = <<>>
    /\ reloads = <<>>
    /\ orphans = {}
    /\ newTodoIds = <<cuid(1)>>
    /\ nextId = 1
    /\ now = InitialClock
    /\ serverTz = 0
    /\ clientTz = serverTz
    /\ boundary = "none"
    /\ budget = MaxDeep
    /\ requests = {}
    /\ replies = {}
    /\ location = Shown(Url("/todos", Undefined), <<"GET", "/todos">>)
    /\ session = CurrentUser
    /\ accounts = {Account(CurrentUser, EmailAda, PasswordGood)}

SpecDeep == InitDeep /\ [][Next]_vars

-----------------------------------------------------------------------------
(* The behaviours in which two forms can be submitted within the same       *)
(* millisecond, in the server's time zone                                   *)

InitTie == Init /\ clientTz = serverTz

NextTie ==
    \/ \E title \in CreateTitles, elapsed \in {0, 1} :
           SubmitCreateAfter(title, elapsed)
    \/ \E item \in ListItems : SubmitToggle(item)
    \/ \E item \in ListItems, title \in UpdateTitles : SubmitUpdate(item, title)
    \/ \E item \in ListItems : SubmitDelete(item)
    \/ SubmitToggleAll
    \/ SubmitClear
    \/ SystemStep

SpecTie == InitTie /\ [][NextTie]_vars

-----------------------------------------------------------------------------
(* The action as the server runs it for the requests of several users:     *)
(* every await of a prisma call is a point where another request can run   *)

MaxRequests == 3
MaxVisits == 4

OtherUser == "u2"
Users == {CurrentUser, OtherUser}

\* Form data is whatever the client sends: the id of a createTodo too
ServerForms ==
    {CreateForm("a", TitleMilk, 0), ToggleForm("a", TRUE),
     ToggleForm("x", TRUE), UpdateForm("a", TitleTea), DeleteForm("a"),
     ToggleAllForm(TRUE), ClearForm,
     CreateForm("c", TitleEmpty, 0), CreateForm("c", TitleBuyError, 0),
     [CreateForm("c", TitleMilk, 0) EXCEPT !.createdAt = BadDate],
     CreateForm("", TitleMilk, 0)}

InitServer ==
    /\ db = <<Row("a", FALSE, 0),
              [Row("b", TRUE, 1) EXCEPT !.userId = OtherUser]>>
    /\ dbVer = 0
    /\ todos = loader(db, CurrentUser)
    /\ todosVer = 0
    /\ fetchers = <<>>
    /\ reloads = <<>>
    /\ orphans = {}
    /\ newTodoIds = <<cuid(1)>>
    /\ nextId = 1
    /\ now = InitialClock
    /\ serverTz = 0
    /\ clientTz = serverTz
    /\ boundary = "none"
    /\ budget = MaxRequests
    /\ requests = {}
    /\ replies = {}
    /\ location = Shown(Url("/todos", Undefined), <<"GET", "/todos">>)
    /\ session = CurrentUser
    /\ accounts = {Account(CurrentUser, EmailAda, PasswordGood)}

\* A request of the user reaches the action
Receive(user, form) ==
    /\ budget > 0
    /\ budget' = budget - 1
    /\ requests' = requests \cup {[user |-> user, form |-> form,
                                   at |-> "action"]}
    /\ UNCHANGED <<db, dbVer, todos, todosVer, fetchers, reloads, orphans,
                   newTodoIds, nextId, now, clientTz, serverTz, boundary,
                   replies, location, session, accounts>>

Answer(req, out) ==
    /\ db' = out.db
    /\ dbVer' = IF out.db # db THEN dbVer + 1 ELSE dbVer
    /\ requests' = requests \ {req}
    /\ replies' = replies \cup {[user |-> req.user, form |-> req.form,
                                 resp |-> out.resp]}
    /\ UNCHANGED <<todos, todosVer, fetchers, reloads, orphans, newTodoIds,
                   nextId, now, clientTz, serverTz, boundary, budget,
                   location, session, accounts>>

\* generalActions[intent](...): one prisma call
RunGeneralAction(req) ==
    /\ req.at = "action"
    /\ req.form.intent \in GeneralIntents
    /\ \E out \in action(db, req.form, req.user, serverTz, now) :
           Answer(req, out)

\* await prisma.todo.findFirst(...), and the throw when nothing is found
FindTodo(req) ==
    /\ req.at = "action"
    /\ req.form.intent \in TodoIntents
    /\ IF findFirst(db, req.form.todoId, req.user)
       THEN /\ requests' = (requests \ {req})
                           \cup {[req EXCEPT !.at = "todoAction"]}
            /\ UNCHANGED <<db, dbVer, todos, todosVer, fetchers, reloads,
                           orphans, newTodoIds, nextId, now, clientTz,
                           serverTz, boundary, budget, replies,
                           location, session, accounts>>
       ELSE \E out \in action(db, req.form, req.user, serverTz, now) :
                Answer(req, out)

\* todoActions[intent](...), after the todo was found
RunTodoAction(req) ==
    /\ req.at = "todoAction"
    /\ \E out \in todoAction(db, req.form) : Answer(req, out)

NextServer ==
    \/ \E user \in Users, form \in ServerForms : Receive(user, form)
    \/ \E req \in requests : RunGeneralAction(req)
    \/ \E req \in requests : FindTodo(req)
    \/ \E req \in requests : RunTodoAction(req)

SpecServer == InitServer /\ [][NextServer]_vars

-----------------------------------------------------------------------------
(* Navigation: the pages a browser reaches as its session changes *)

VisitPaths == {"/", "/login", "/todos"}
RedirectToParams == {Undefined, "/todos/active"}
LoginEmails == {EmailAda, EmailBob, EmailNoAt}
LoginPasswords == {PasswordGood, PasswordOther, PasswordShort}

InitNav ==
    /\ db = <<>>
    /\ dbVer = 0
    /\ todos = <<>>
    /\ todosVer = 0
    /\ fetchers = <<>>
    /\ reloads = <<>>
    /\ orphans = {}
    /\ newTodoIds = <<cuid(1)>>
    /\ nextId = 1
    /\ now = InitialClock
    /\ serverTz = 0
    /\ clientTz = serverTz
    /\ boundary = "none"
    /\ budget = MaxVisits
    /\ requests = {}
    /\ replies = {}
    /\ location = Shown(Url("about:blank", Undefined), <<"none", "">>)
    /\ session = NoSession
    /\ accounts \in {{}, {Account("u1", EmailAda, PasswordGood)}}

\* The user opens a URL
Visit(path, redirectTo) ==
    /\ budget > 0
    /\ budget' = budget - 1
    /\ location' = Shown(Resolve(Url(path, redirectTo), session, accounts),
                         <<"GET", path>>)
    /\ UNCHANGED <<db, dbVer, todos, todosVer, fetchers, reloads, orphans,
                   newTodoIds, nextId, now, clientTz, serverTz, boundary,
                   requests, replies, session, accounts>>

\* LoginPage: the Log in or the Sign up button
SubmitLogin(intent, email, password) ==
    /\ budget > 0
    /\ location.path = "/login"
    /\ budget' = budget - 1
    /\ LET out == loginAction(LoginForm(intent, email, password,
                                        redirectToField(location)),
                              accounts, session)
       IN  /\ accounts' = out.users
           /\ session' = out.resp.session
           /\ location' =
                  IF out.resp.kind = "redirect"
                  THEN Shown(Resolve(Url(out.resp.to, Undefined),
                                     out.resp.session, out.users),
                             <<"POST", "/login">>)
                  ELSE Shown(location, <<"POST", "/login">>)
    /\ UNCHANGED <<db, dbVer, todos, todosVer, fetchers, reloads, orphans,
                   newTodoIds, nextId, now, clientTz, serverTz, boundary,
                   requests, replies>>

\* TodosRoute: the Logout button
SubmitLogout ==
    /\ budget > 0
    /\ location.path \in TodosPaths
    /\ budget' = budget - 1
    /\ session' = logout("/login").session
    /\ location' = Shown(Resolve(Url(logout("/login").to, Undefined),
                                 logout("/login").session, accounts),
                         <<"POST", "/logout">>)
    /\ UNCHANGED <<db, dbVer, todos, todosVer, fetchers, reloads, orphans,
                   newTodoIds, nextId, now, clientTz, serverTz, boundary,
                   requests, replies, accounts>>

NextNav ==
    \/ \E path \in VisitPaths, redirectTo \in RedirectToParams :
           Visit(path, redirectTo)
    \/ \E intent \in {"login", "signup"}, email \in LoginEmails,
          password \in LoginPasswords : SubmitLogin(intent, email, password)
    \/ SubmitLogout

SpecNav == InitNav /\ [][NextNav]_vars

-----------------------------------------------------------------------------
(* Vocabulary of the properties *)

\* An in-flight entry is optimistic: its request is pending, or its success
\* response has arrived and the revalidated snapshot has not
IsOptimisticEntry(f) ==
    \/ f.state = "submitting"
    \/ (f.state = "loading" /\ f.data.type = "success")

OptimisticEntries(fs, intent) ==
    {i \in 1..Len(fs) : IsOptimisticEntry(fs[i]) /\ fs[i].submission.intent = intent}

\* The todo with this id in a list (the list holds it at most once)
ItemOf(ts, id) == ts[CHOOSE i \in 1..Len(ts) : ts[i].id = id]
Count(ts, id) == Cardinality({i \in 1..Len(ts) : ts[i].id = id})
Reverse(seq) == [i \in 1..Len(seq) |-> seq[Len(seq) + 1 - i]]

-----------------------------------------------------------------------------
(* C1 *)

\* C1 (delete wins): whenever a toggleTodo entry and a deleteTodo entry for
\* the same todo are both optimistic, that todo is absent from
\* optimisticTodos and no ListItem renders it, in whichever order the two
\* entries stand in the fetcher list.
C1_DeleteWins ==
    \A i \in OptimisticEntries(fetchers, "toggleTodo"),
       j \in OptimisticEntries(fetchers, "deleteTodo") :
        fetchers[i].submission.todoId = fetchers[j].submission.todoId
        => LET a == fetchers[j].submission.todoId
           IN  /\ a \notin Ids(optimisticTodos)
               /\ a \notin Ids(Rendered)
               /\ a \notin Ids(optimisticTodosOf(todos, Reverse(fetchers)))
               /\ a \notin Ids(RenderedOf(todos, Reverse(fetchers), "all"))

-----------------------------------------------------------------------------
(* C2 *)

\* C2 (failed intents are not applied): the reconciled list, the list handed
\* to the ListItems and what they render are the same as if every entry
\* that is not optimistic (idle, or loading with a response that is not a
\* success) were absent; with no optimistic entry left the reconciled list is
\* the confirmed snapshot.
C2_FailedNotApplied ==
    LET live == SelectSeq(fetchers, IsOptimisticEntry)
    IN  /\ optimisticTodosOf(todos, fetchers) = optimisticTodosOf(todos, live)
        /\ todosToRenderOf(todos, fetchers) = todosToRenderOf(todos, live)
        /\ RenderedOf(todos, fetchers, "all") = RenderedOf(todos, live, "all")
        /\ live = <<>> => optimisticTodos = todos

\* A create that failed at the server (the forbidden word) while its fetcher
\* still holds the submission: applying it would add a todo
C2_Witness ==
    \E i \in 1..Len(fetchers) :
        /\ fetchers[i].state = "loading"
        /\ fetchers[i].data.type = "error"
        /\ fetchers[i].submission.intent = "createTodo"
        /\ fetchers[i].submission.title # TitleEmpty
        /\ fetchers[i].submission.id \notin Ids(todos)
        /\ fetchers[i].submission.id \notin Ids(optimisticTodos)

-----------------------------------------------------------------------------
(* C3 *)

\* The server accepts a create with this title
TitleAccepted(title) ==
    ~Includes(title, ErrorWord) /\ validateNewTodoTitle(title) = NoError

\* The predicted effect of an entry is visible in what the ListItems render
EffectShown(f) ==
    LET form == f.submission
        ownToggle(id) ==
            \E k \in OptimisticEntries(fetchers, "toggleTodo") :
                fetchers[k].submission.todoId = id
    IN  CASE form.intent = "toggleTodo" ->
                 \A k \in 1..Len(Rendered) :
                     Rendered[k].id = form.todoId
                     => Rendered[k].complete = IsTrueString(form.complete)
          [] form.intent = "deleteTodo" -> form.todoId \notin Ids(Rendered)
          [] form.intent = "createTodo" ->
                 TitleAccepted(form.title)
                 => /\ Count(todosToRender, form.id) = 1
                    /\ \/ form.id \in Ids(Rendered)
                       \/ \E k \in OptimisticEntries(fetchers, "deleteTodo") :
                              fetchers[k].submission.todoId = form.id
                       \/ /\ OptimisticEntries(fetchers,
                                               "deleteCompletedTodos") # {}
                          /\ ItemOf(todosToRender, form.id).complete
          [] form.intent = "toggleAllTodos" ->
                 \A k \in 1..Len(Rendered) :
                     \/ Rendered[k].complete = IsTrueString(form.complete)
                     \/ ownToggle(Rendered[k].id)
          [] form.intent = "deleteCompletedTodos" ->
                 \A k \in 1..Len(Rendered) :
                     ~ItemOf(todosToRender, Rendered[k].id).complete
          [] OTHER -> TRUE

\* The entry's request is pending, or the server has accepted it and the
\* confirmed snapshot was read before its write
NotYetConfirmed(f) ==
    \/ (f.state = "submitting" /\ f.resp.kind = "none")
    \/ (f.state = "submitting" /\ f.resp.type = "success")
    \/ f.commitVer > todosVer

\* C3 (no flicker): from its submission until a snapshot read after its
\* write is installed, an entry the server accepts is optimistic and its
\* predicted effect is applied to what is displayed, whatever else is in
\* flight.
C3_NoFlicker ==
    \A i \in 1..Len(fetchers) :
        NotYetConfirmed(fetchers[i])
        => canBeOptimistic(fetchers[i]) /\ EffectShown(fetchers[i])

\* The response of one entry has arrived and its write is not in the
\* snapshot yet, while another mutation has already been confirmed
C3_Witness ==
    \E i, j \in 1..Len(fetchers) :
        /\ fetchers[i].state = "loading"
        /\ fetchers[i].data.type = "success"
        /\ fetchers[i].commitVer > todosVer
        /\ fetchers[j].state = "idle"
        /\ fetchers[j].data.type = "success"
        /\ todosVer > 0

-----------------------------------------------------------------------------
(* C4 *)

\* The value an optimistic toggleTodo entry submits for this todo, if any
OwnToggles(id) ==
    {IsTrueString(fetchers[k].submission.complete) :
        k \in {n \in OptimisticEntries(fetchers, "toggleTodo") :
                  fetchers[n].submission.todoId = id}}

\* C4 (bulk toggle overridden per item): whenever a toggleAllTodos entry
\* with value c and a toggleTodo entry are both optimistic, every todo of
\* optimisticTodos and every rendered ListItem shows the value of its own
\* optimistic toggleTodo entry if it has one, and c otherwise.
C4_BulkToggleOverridden ==
    \A i \in OptimisticEntries(fetchers, "toggleAllTodos") :
        OptimisticEntries(fetchers, "toggleTodo") # {}
        => LET c == IsTrueString(fetchers[i].submission.complete)
               expected(id) == IF OwnToggles(id) # {} THEN OwnToggles(id)
                               ELSE {c}
           IN  /\ \A k \in 1..Len(optimisticTodos) :
                      optimisticTodos[k].complete
                          \in expected(optimisticTodos[k].id)
               /\ \A k \in 1..Len(Rendered) :
                      Rendered[k].complete \in expected(Rendered[k].id)

-----------------------------------------------------------------------------
(* C5 *)

\* An optimistic deleteTodo or deleteCompletedTodos entry hides this todo of
\* the snapshot
HiddenByDelete(id) ==
    \/ \E k \in OptimisticEntries(fetchers, "deleteTodo") :
           fetchers[k].submission.todoId = id
    \/ /\ OptimisticEntries(fetchers, "deleteCompletedTodos") # {}
       /\ ItemOf(todos, id).complete

\* C5 as amended (unique ids): no id occurs twice in todosToRender, in what
\* the ListItems render or in optimisticTodos; when the snapshot already
\* holds the id of a createTodo entry that is still optimistic, todosToRender
\* holds that id exactly once, and so do optimisticTodos and the rendered
\* list unless an optimistic deleteTodo or deleteCompletedTodos hides the
\* todo, and then they do not hold it.
C5_UniqueIds ==
    /\ \A id \in Ids(todosToRender) \cup Ids(optimisticTodos) :
           /\ Count(todosToRender, id) <= 1
           /\ Count(optimisticTodos, id) <= 1
           /\ Count(Rendered, id) <= 1
    /\ \A i \in OptimisticEntries(fetchers, "createTodo") :
           fetchers[i].submission.id \in Ids(todos)
           => LET x == fetchers[i].submission.id
                  n == IF HiddenByDelete(x) THEN 0 ELSE 1
              IN  /\ Count(todosToRender, x) = 1
                  /\ Count(optimisticTodos, x) = n
                  /\ Count(Rendered, x) = n

\* C5 as claimed: when the snapshot already holds the id of a createTodo
\* entry that is still optimistic, the rendered list and optimisticTodos
\* each hold exactly one todo with that id.
C5_ExactlyOne ==
    \A i \in OptimisticEntries(fetchers, "createTodo") :
        fetchers[i].submission.id \in Ids(todos)
        => /\ Count(optimisticTodos, fetchers[i].submission.id) = 1
           /\ Count(Rendered, fetchers[i].submission.id) = 1

\* The snapshot holds the new todo while the create entry, whose response
\* has arrived, is still optimistic, and the todo is rendered
C5_Witness ==
    \E i \in 1..Len(fetchers) :
        /\ fetchers[i].state = "loading"
        /\ fetchers[i].data.type = "success"
        /\ fetchers[i].submission.intent = "createTodo"
        /\ fetchers[i].submission.id \in Ids(todos)
        /\ fetchers[i].submission.id \in Ids(Rendered)

-----------------------------------------------------------------------------
(* C6 *)

\* C6 (last write wins): when a toggleTodo for a todo is pending and the
\* user toggles the same todo again, the todo shows the value of the later
\* submission, in optimisticTodos and in its ListItem.
C6_LastWriteWins ==
    \A earlier \in orphans, j \in OptimisticEntries(fetchers, "toggleTodo") :
        (earlier.intent = "toggleTodo"
         /\ earlier.todoId = fetchers[j].submission.todoId)
        => LET a == fetchers[j].submission.todoId
               v2 == IsTrueString(fetchers[j].submission.complete)
           IN  /\ \A k \in 1..Len(optimisticTodos) :
                      optimisticTodos[k].id = a
                      => optimisticTodos[k].complete = v2
               /\ \A k \in 1..Len(Rendered) :
                      Rendered[k].id = a => Rendered[k].complete = v2

-----------------------------------------------------------------------------
(* C7 *)

\* The wall-clock reading a todo created on this page was submitted with
SubmittedAt(id) ==
    IF id \in Ids(todos)
    THEN ParseDate(ItemOf(todos, id).createdAt, clientTz) + serverTz
    ELSE FetcherOf(fetchers, CreateKey(id)).submission.createdAt.wall

\* C7 (ordering stability): todos created on this page are rendered in the
\* order of their submission, whichever of them are confirmed.
C7_OrderingStability ==
    \A i, j \in 1..Len(todosToRender) :
        (/\ \E k \in 1..nextId : cuid(k) = todosToRender[i].id
         /\ \E k \in 1..nextId : cuid(k) = todosToRender[j].id
         /\ SubmittedAt(todosToRender[i].id) < SubmittedAt(todosToRender[j].id))
        => i < j

-----------------------------------------------------------------------------
(* C8 *)

\* The server handles, in this step, the pending request of fetcher i
Handles(i) ==
    /\ fetchers[i].state = "submitting"
    /\ fetchers[i].resp = NoResp
    /\ Len(fetchers') = Len(fetchers)
    /\ fetchers'[i].resp # NoResp

HasForbiddenWord(form) ==
    form.intent \in {"createTodo", "updateTodo"} /\ Includes(form.title, ErrorWord)

\* C8 as claimed: a step in which the server handles a createTodo or
\* updateTodo request whose title contains "error" leaves the store unchanged
\* and answers with the returned {type: "error"}, status 400, and the
\* forbidden-word message.
C8_AlwaysAnswered400 ==
    [][\A i \in 1..Len(fetchers) :
           (Handles(i) /\ HasForbiddenWord(fetchers[i].submission))
           => /\ db' = db
              /\ fetchers'[i].resp.kind = "returned"
              /\ fetchers'[i].resp.type = "error"
              /\ fetchers'[i].resp.status = 400
              /\ fetchers'[i].resp.error = ForbiddenWordMessage
      ]_vars

\* C8 as amended (server-side validation rejects before the store call): a
\* step in which the server handles a createTodo or updateTodo request whose
\* title contains "error" leaves the store unchanged, and the response is
\* the returned {type: "error"} with status 400 and the forbidden-word
\* message, unless it is an updateTodo whose todo is not found, which the
\* ownership check answers with the thrown 404 before the title is looked at.
C8_RejectedBeforeStore ==
    [][/\ \A i \in 1..Len(fetchers) :
              (Handles(i) /\ HasForbiddenWord(fetchers[i].submission))
              => /\ db' = db
                 /\ dbVer' = dbVer
                 /\ \/ fetchers'[i].resp =
                           JsonError(fetchers[i].submission.intent,
                                     IF fetchers[i].submission.intent
                                            = "createTodo"
                                     THEN fetchers[i].submission.id
                                     ELSE Undefined,
                                     ForbiddenWordMessage)
                    \/ /\ fetchers[i].submission.intent = "updateTodo"
                       /\ fetchers[i].submission.todoId \notin Ids(db)
                       /\ fetchers'[i].resp
                              = ThrownResponse(404, "todo not found")
       /\ \A form \in orphans :
              (form \notin orphans' /\ HasForbiddenWord(form)) => db' = db
      ]_vars

\* A createTodo and an updateTodo request with the forbidden word have both
\* been answered with the 400 error
C8_Witness ==
    \E i, j \in 1..Len(fetchers) :
        /\ fetchers[i].submission.intent = "createTodo"
        /\ fetchers[j].submission.intent = "updateTodo"
        /\ fetchers[i].resp.status = 400
        /\ fetchers[j].resp.status = 400
        /\ fetchers[i].resp.error = ForbiddenWordMessage
        /\ fetchers[j].resp.error = ForbiddenWordMessage

-----------------------------------------------------------------------------
(* C9 *)

-----------------------------------------------------------------------------
(* C10 *)

\* The creates that failed with a validation error and were not resubmitted
FailedCreates ==
    {i \in 1..Len(fetchers) :
        /\ fetchers[i].key[1] = "create"
        /\ fetchers[i].data.type = "error"
        /\ fetchers[i].state # "submitting"}

\* C10 (a failed create keeps its typed title available): whenever some
\* create has failed and has not been resubmitted, the create input that is
\* shown is the input of a failed create.
C10_FailedInputShown ==
    (boundary = "none" /\ FailedCreates # {})
    => \E i \in FailedCreates : newTodoIdToDisplay = fetchers[i].key[2]

-----------------------------------------------------------------------------
(* C11 *)

\* C11 (immediate interactivity of predicted items): a toggleTodo,
\* updateTodo or deleteTodo submitted for the id of a todo whose createTodo
\* the server has not handled yet never gets the 404 "todo not found"
\* response, whichever of the two requests the server handles first.
C11_PredictedItemsInteractive ==
    \A i, j \in 1..Len(fetchers) :
        (/\ fetchers[i].submission.intent = "createTodo"
         /\ fetchers[i].state = "submitting"
         /\ fetchers[i].resp = NoResp
         /\ fetchers[j].submission.intent \in TodoIntents
         /\ fetchers[j].submission.todoId = fetchers[i].submission.id)
        => fetchers[j].resp.status # 404

-----------------------------------------------------------------------------
(* C12 *)

\* The rows of the store
Rows(store) == {store[i] : i \in 1..Len(store)}

\* The action finishes with this request in this step
Answered(req) == req \in requests /\ req \notin requests'

The404 == ThrownResponse(404, "todo not found")

\* C12 (ownership check): when the action looks up the todo of a toggleTodo,
\* updateTodo or deleteTodo request and the store holds no row with that id
\* owned by the requesting user, the request is answered with the thrown 404
\* "todo not found", the same whether no row has the id or another user owns
\* it, and the store is unchanged.
C12_OwnershipCheck ==
    [][\A req \in requests :
           (/\ req.at = "action"
            /\ req.form.intent \in TodoIntents
            /\ ~\E row \in Rows(db) : /\ row.id = req.form.todoId
                                      /\ row.userId = req.user
            /\ requests' # requests
            /\ req \notin requests')
           => /\ db' = db
              /\ replies' = replies \cup {[user |-> req.user,
                                           form |-> req.form,
                                           resp |-> The404]}
              /\ requests' = requests \ {req}
      ]_vars

\* The 404 was given for an id no row has and for the id of a row that
\* another user owns
C12_Witness ==
    \E r1, r2 \in replies :
        /\ r1.resp = The404
        /\ r2.resp = The404
        /\ r1.form.todoId = "x"
        /\ r2.form.todoId = "a"
        /\ r2.user = OtherUser
        /\ db = <<Row("a", FALSE, 0),
                  [Row("b", TRUE, 1) EXCEPT !.userId = OtherUser]>>

-----------------------------------------------------------------------------
(* C13 *)

\* C13 (user isolation): a step in which the action runs for a request of
\* user U neither changes nor removes a row owned by another user, and
\* every row it adds is owned by U.
C13_UserIsolation ==
    [][\A req \in requests :
           Answered(req)
           => \A row \in Rows(db) \cup Rows(db') :
                  row.userId # req.user
                  => row \in Rows(db) /\ row \in Rows(db')
      ]_vars

-----------------------------------------------------------------------------
(* C14 *)

\* C14 (remaining count): remainingActive has as many todos as
\* optimisticTodos has with complete = false, and allComplete holds exactly
\* when there is none and optimisticTodos is not empty.
C14_RemainingCount ==
    LET active == {i \in 1..Len(optimisticTodos) :
                      ~optimisticTodos[i].complete}
    IN  /\ Len(remainingActiveOf(todos, fetchers)) = Cardinality(active)
        /\ allCompleteOf(todos, fetchers)
               <=> (Cardinality(active) = 0 /\ optimisticTodos # <<>>)

\* allComplete holds by a pending mutation while the snapshot still has an
\* active todo
C14_Witness ==
    /\ allCompleteOf(todos, fetchers)
    /\ \E i \in 1..Len(todos) : ~todos[i].complete
    /\ \E i \in 1..Len(fetchers) : fetchers[i].state = "submitting"

-----------------------------------------------------------------------------
(* C15 *)

WhitespaceChars == {" "}

\* nothing is left of the title after trimming
IsBlank(title) == \A i \in 1..Len(title) : title[i] \in WhitespaceChars

\* C15 (title required after trimming): a createTodo or updateTodo whose
\* title is empty or only whitespace is answered with the title-required
\* error, is not in optimisticTodos, and leaves no such title in the store.
C15_BlankTitleRejected ==
    /\ \A i \in 1..Len(fetchers) :
           (/\ fetchers[i].submission.intent \in {"createTodo", "updateTodo"}
            /\ IsBlank(fetchers[i].submission.title)
            /\ fetchers[i].resp # NoResp)
           => /\ fetchers[i].resp.type = "error"
              /\ fetchers[i].resp.error = TitleRequiredMessage
    /\ \A i \in 1..Len(optimisticTodos) : ~IsBlank(optimisticTodos[i].title)
    /\ \A i \in 1..Len(db) : ~IsBlank(db[i].title)

-----------------------------------------------------------------------------
(* C16 *)

\* the four validation failures of a createTodo form
FailsValidation(form) ==
    \/ validateNewTodoTitle(form.title) # NoError
    \/ Includes(form.title, ErrorWord)
    \/ validateCreatedAt(form.createdAt) # NoError
    \/ validateId(form.id) # NoError

\* C16 (validation errors): a createTodo that fails any validation (empty
\* title, forbidden word, malformed createdAt, missing id) is answered with a
\* returned {type: "error", error: <message>} response.
C16_ValidationErrorReported ==
    \A r \in replies :
        (r.form.intent = "createTodo" /\ FailsValidation(r.form))
        => /\ r.resp.kind = "returned"
           /\ r.resp.type = "error"
           /\ r.resp.error # NoError

-----------------------------------------------------------------------------
(* C17 *)

\* the item's own toggle, update or delete fetcher has not settled
HasOwnPending(item) ==
    \E i \in 1..Len(fetchers) :
        /\ fetchers[i].key \in
               {ToggleKey(item.id), UpdateKey(item.id), DeleteKey(item.id)}
        /\ fetchers[i].state # "idle"

\* C17 (per-item disabled state): the controls of a rendered item are
\* disabled exactly while the item has its own pending toggle, update or
\* delete.
C17_DisabledWhilePending ==
    boundary = "none"
    => \A i \in 1..Len(Rendered) :
           ControlsDisabled(Rendered[i]) <=> HasOwnPending(Rendered[i])

-----------------------------------------------------------------------------
(* C18 *)

\* the mutation submitted with this key is still applied optimistically
PendingKey(k) == HasFetcher(fetchers, k) /\ canBeOptimistic(FetcherOf(fetchers, k))

\* no mutation is optimistic: every fetcher is idle or gone, or holds the
\* error of a failed mutation
AllSettled == \A i \in 1..Len(fetchers) : ~canBeOptimistic(fetchers[i])

\* a step at which a mutation starts to be optimistic is a submission
NoRevival ==
    \A i \in 1..Len(fetchers') :
        (canBeOptimistic(fetchers'[i]) /\ ~PendingKey(fetchers'[i].key))
        => budget' = budget - 1

-----------------------------------------------------------------------------
(* C19 *)

\* the in-flight set with the entries at i and j exchanged
Swap(fs, i, j) == [fs EXCEPT ![i] = fs[j], ![j] = fs[i]]

\* entries i and j are optimistic toggleTodo entries for different todos
IndependentToggles(i, j) ==
    /\ i < j
    /\ IsOptimisticEntry(fetchers[i])
    /\ IsOptimisticEntry(fetchers[j])
    /\ fetchers[i].submission.intent = "toggleTodo"
    /\ fetchers[j].submission.intent = "toggleTodo"
    /\ fetchers[i].submission.todoId # fetchers[j].submission.todoId

\* both responses have been sent and none has been delivered
BothAnswered(i, j) ==
    /\ fetchers[i].state = "submitting"
    /\ fetchers[j].state = "submitting"
    /\ fetchers[i].resp.kind = "returned"
    /\ fetchers[j].resp.kind = "returned"

\* C19 (commutativity across independent targets): for two optimistic
\* toggleTodo entries for different todos, optimisticTodos and the rendered
\* list are the same when the two entries are exchanged in the in-flight set,
\* and the same whichever of the two responses is delivered first.
C19_TogglesCommute ==
    \A i, j \in 1..Len(fetchers) :
        IndependentToggles(i, j)
        => /\ optimisticTodosOf(todos, Swap(fetchers, i, j)) = optimisticTodos
           /\ RenderedOf(todos, Swap(fetchers, i, j), "all") = Rendered
           /\ BothAnswered(i, j)
              => LET ij == Delivered(Delivered(fetchers, i), j)
                     ji == Delivered(Delivered(fetchers, j), i)
                 IN  /\ optimisticTodosOf(todos, ij) = optimisticTodosOf(todos, ji)
                     /\ optimisticTodosOf(todos, Delivered(fetchers, i))
                            = optimisticTodosOf(todos, ij)
                     /\ optimisticTodosOf(todos, Delivered(fetchers, j))
                            = optimisticTodosOf(todos, ij)

\* two answered toggles for different todos of the snapshot that set
\* different values
C19_Witness ==
    \E i, j \in 1..Len(fetchers) :
        /\ IndependentToggles(i, j)
        /\ BothAnswered(i, j)
        /\ fetchers[i].submission.complete # fetchers[j].submission.complete
        /\ {fetchers[i].submission.todoId, fetchers[j].submission.todoId}
               \subseteq Ids(todos)

-----------------------------------------------------------------------------
(* C20 *)

\* the only mutation is one createTodo the store has not confirmed, of a
\* user who has no todos
OneCreatePending ==
    /\ todos = <<>>
    /\ Len(fetchers) = 1
    /\ fetchers[1].submission.intent = "createTodo"
    /\ fetchers[1].state = "submitting"
    /\ TitleAccepted(fetchers[1].submission.title)

\* C20 (footer, list and toggle-all): on the list page the footer with the
\* count, the list and the toggle-all button are hidden exactly when
\* optimisticTodos is empty; they are hidden for a user without todos, and
\* shown with "1 item left" once one createTodo is submitted and before the
\* store has confirmed it.
C20_ShownIffTodosRemain ==
    boundary = "none"
    => /\ footerHiddenOf(todos, fetchers) <=> (optimisticTodos = <<>>)
       /\ todoListHiddenOf(todos, fetchers) <=> (optimisticTodos = <<>>)
       /\ toggleAllHiddenOf(todos, fetchers) <=> (optimisticTodos = <<>>)
       /\ (todos = <<>> /\ fetchers = <<>>)
          => /\ footerHiddenOf(todos, fetchers)
             /\ todoListHiddenOf(todos, fetchers)
             /\ toggleAllHiddenOf(todos, fetchers)
       /\ OneCreatePending
          => /\ ~footerHiddenOf(todos, fetchers)
             /\ ~todoListHiddenOf(todos, fetchers)
             /\ ~toggleAllHiddenOf(todos, fetchers)
             /\ todoCountOf(todos, fetchers) = [count |-> 1, noun |-> "item"]

\* the create was submitted and the server has not handled it yet
C20_Witness ==
    /\ boundary = "none"
    /\ OneCreatePending
    /\ db = <<>>
    /\ fetchers[1].resp = NoResp
    /\ ~footerHiddenOf(todos, fetchers)

-----------------------------------------------------------------------------
(* C21 *)

\* a toggle to complete is optimistic for a todo the list renders
ToggleToCompleteShown ==
    \E i \in 1..Len(fetchers) :
        /\ IsOptimisticEntry(fetchers[i])
        /\ fetchers[i].submission.intent = "toggleTodo"
        /\ fetchers[i].submission.complete = "true"
        /\ \E k \in 1..Len(Rendered) :
               /\ Rendered[k].id = fetchers[i].submission.todoId
               /\ Rendered[k].complete

\* C21 (clear-completed control): on the list page the clear-completed
\* button is shown exactly when some todo of optimisticTodos is complete, and
\* it is shown as soon as a toggle to complete is submitted.
C21_ClearShownIffComplete ==
    boundary = "none"
    => /\ clearCompletedShownOf(todos, fetchers)
          <=> \E i \in 1..Len(optimisticTodos) : optimisticTodos[i].complete
       /\ ToggleToCompleteShown => clearCompletedShownOf(todos, fetchers)

-----------------------------------------------------------------------------
(* C22 *)

-----------------------------------------------------------------------------
(* C23 *)

\* the step is the browser's request of this method and path
Requested(method, path) ==
    budget' # budget /\ location'.request = <<method, path>>

\* the page a request ends on, by the session before the request
LandsBySession ==
    /\ Requested("GET", "/")
       => location'.path = IF session # NoSession THEN "/todos" ELSE "/login"
    /\ (Requested("GET", "/login") /\ session # NoSession)
       => location'.path = "/todos"
    /\ Requested("POST", "/logout") => location'.path = "/login"

\* the sign-up or log-in succeeded
SignedIn == Requested("POST", "/login") /\ session' # NoSession

-----------------------------------------------------------------------------
(* C24 *)

\* deleteCompletedTodos and toggleAllTodos(complete = true) are both
\* optimistic
BothBulkOptimistic ==
    /\ clearingTodosOf(fetchers)
    /\ togglingCompleteOf(fetchers).defined
    /\ togglingCompleteOf(fetchers).value

\* the todo has no optimistic toggle or delete of its own
NoOwnIntent(id) ==
    /\ ~canBeOptimistic(FetcherOf(fetchers, ToggleKey(id)))
    /\ ~canBeOptimistic(FetcherOf(fetchers, DeleteKey(id)))

\* C24 (fixed step order for bulk intents): while a deleteCompletedTodos and
\* a toggleAllTodos(true) are both optimistic, a todo that is complete in the
\* loader's todos is dropped, and a todo that is incomplete there stays in
\* optimisticTodos and in the rendered list and is complete in both.
C24_ClearBeforeToggleAll ==
    (boundary = "none" /\ BothBulkOptimistic)
    => \A i \in 1..Len(todos) :
           NoOwnIntent(todos[i].id)
           => IF todos[i].complete
              THEN /\ todos[i].id \notin Ids(optimisticTodos)
                   /\ todos[i].id \notin Ids(Rendered)
              ELSE /\ todos[i].id \in Ids(optimisticTodos)
                   /\ ItemOf(optimisticTodos, todos[i].id).complete
                   /\ todos[i].id \in Ids(Rendered)
                   /\ ItemOf(Rendered, todos[i].id).complete

\* both bulk intents are optimistic over a complete and an incomplete todo
C24_Witness ==
    /\ boundary = "none"
    /\ BothBulkOptimistic
    /\ \E i, j \in 1..Len(todos) :
           /\ todos[i].complete
           /\ ~todos[j].complete
           /\ NoOwnIntent(todos[i].id)
           /\ NoOwnIntent(todos[j].id)

-----------------------------------------------------------------------------
(* C25 *)

\* the number of the cuid() call that made this id, 0 for the other ids
CreatedAs(id) ==
    IF \E k \in 1..nextId : cuid(k) = id
    THEN CHOOSE k \in 1..nextId : cuid(k) = id
    ELSE 0

\* C25 (stable tie-break): two todos created on this page whose createdAt
\* compare equal are rendered in the order of their submission, whichever of
\* them the store has confirmed.
C25_StableTieBreak ==
    \A i, j \in 1..Len(todosToRender) :
        (/\ CreatedAs(todosToRender[i].id) > 0
         /\ CreatedAs(todosToRender[j].id) > 0
         /\ ParseDate(todosToRender[i].createdAt, clientTz)
                = ParseDate(todosToRender[j].createdAt, clientTz)
         /\ CreatedAs(todosToRender[i].id) < CreatedAs(todosToRender[j].id))
        => i < j

-----------------------------------------------------------------------------
(* C26 *)

\* C26 (the two views agree): the ListItems rendered under the filter "all"
\* are the todos of optimisticTodos, each shown with the complete flag it has
\* in optimisticTodos, and the count of items left is the number of rendered
\* items shown as active.
C26_ViewsAgree ==
    boundary = "none"
    => /\ {Rendered[i].id : i \in 1..Len(Rendered)} = Ids(optimisticTodos)
       /\ \A i \in 1..Len(Rendered), k \in 1..Len(optimisticTodos) :
              Rendered[i].id = optimisticTodos[k].id
              => Rendered[i].complete = optimisticTodos[k].complete
       /\ todoCountOf(todos, fetchers).count
              = Cardinality({i \in 1..Len(Rendered) : ~Rendered[i].complete})

-----------------------------------------------------------------------------
(* C27 *)

\* The ids of a list with their complete flags
Flags(ts) == {<<ts[i].id, ts[i].complete>> : i \in 1..Len(ts)}

PredictedIntents ==
    {"createTodo", "toggleTodo", "toggleAllTodos", "deleteTodo",
     "deleteCompletedTodos"}

\* Fetcher i holds the only mutation in flight, the server has not handled
\* it yet, and the confirmed snapshot is what the loader reads from the store
OnlyInFlight(i) ==
    /\ boundary = "none"
    /\ orphans = {}
    /\ reloads = <<>>
    /\ fetchers[i].state = "submitting"
    /\ fetchers[i].resp = NoResp
    /\ \A j \in 1..Len(fetchers) : j # i => fetchers[j].state = "idle"
    /\ todos = loader(db, CurrentUser)
    /\ fetchers[i].submission.intent \in PredictedIntents

\* C27 (prediction soundness): with the confirmed snapshot equal to the store
\* and exactly one create, toggle, toggle-all, delete or clear-completed in
\* flight, every outcome in which the server accepts it leaves the store with
\* the ids and complete flags that the reconciled list, and the rendered
\* list, already show.
C27_PredictionSound ==
    \A i \in 1..Len(fetchers) :
        OnlyInFlight(i)
        => \A out \in action(db, fetchers[i].submission, CurrentUser,
                             serverTz, now) :
               out.resp.type = "success"
               => /\ Flags(optimisticTodos) = Flags(loader(out.db, CurrentUser))
                  /\ Flags(Rendered) = Flags(loader(out.db, CurrentUser))

\* A clear-completed is the only mutation in flight, over a snapshot with a
\* completed and an active todo
C27_Witness ==
    \E i \in 1..Len(fetchers) :
        /\ OnlyInFlight(i)
        /\ fetchers[i].submission.intent = "deleteCompletedTodos"
        /\ \E k \in 1..Len(todos) : todos[k].complete
        /\ \E k \in 1..Len(todos) : ~todos[k].complete
        /\ \E out \in action(db, fetchers[i].submission, CurrentUser,
                             serverTz, now) : out.resp.type = "success"

-----------------------------------------------------------------------------
(* C28 *)

\* C28 (a per-item mutation racing with a deletion): every toggleTodo,
\* updateTodo or deleteTodo request is answered with a success or with the
\* thrown 404 "todo not found", wherever the requests that delete the same
\* todo run between its ownership lookup and its write.
C28_SuccessOr404 ==
    \A reply \in replies :
        reply.form.intent \in TodoIntents
        => reply.resp.type = "success" \/ reply.resp = The404

-----------------------------------------------------------------------------
(* C29 *)

\* the CreateInputs that are rendered without the hidden attribute
VisibleCreateInputs ==
    {i \in 1..Len(newTodoIds) : newTodoIds[i] = newTodoIdToDisplay}

\* C29 (one visible create input): newTodoIds is never empty; while the route
\* is rendered, exactly one of its CreateInputs is visible, the one of
\* newTodoIdToDisplay; and a step removes an id from newTodoIds only when the
\* confirmed snapshot has a todo with that id.
C29_OneCreateInput ==
    /\ [](/\ newTodoIds # <<>>
          /\ boundary = "none" => Cardinality(VisibleCreateInputs) = 1)
    /\ [][\A i \in 1..Len(newTodoIds) :
              (\A k \in 1..Len(newTodoIds') : newTodoIds'[k] # newTodoIds[i])
              => newTodoIds[i] \in Ids(todos)
         ]_vars

\* The input of a create that the server refused is shown again, in place of
\* the newest one, after an earlier id was confirmed and left newTodoIds
C29_Witness ==
    /\ boundary = "none"
    /\ Len(newTodoIds) > 1
    /\ newTodoIdToDisplay # newTodoIds[Len(newTodoIds)]
    /\ \E k \in 1..nextId :
           cuid(k) \in Ids(todos)
           /\ \A i \in 1..Len(newTodoIds) : newTodoIds[i] # cuid(k)

-----------------------------------------------------------------------------
(* C30 *)

\* The store without the rows of the other users
OwnRows(store, userId) == SelectSeq(store, LAMBDA r : r.userId = userId)

\* C30 (non-interference on create): the response to a createTodo request is
\* one the action gives for the same form on the store without the rows of
\* the other users, so it does not tell whether another user owns a todo
\* with the id of the form.
C30_CreateNonInterference ==
    [][\A req \in requests :
           (Answered(req) /\ req.form.intent = "createTodo")
           => \E out \in action(OwnRows(db, req.user), req.form, req.user,
                                serverTz, now) :
                  replies' = replies \cup {[user |-> req.user,
                                            form |-> req.form,
                                            resp |-> out.resp]}
      ]_vars

=============================================================================
